---- MODULE Spec2Model ----
(***************************************************************************)
(* Model of csstype's declaration assembler (src/src/properties.ts): the   *)
(* property table loop, the declaration loops over properties, at-rule     *)
(* descriptors and data types, the interfaces and their generics, and the  *)
(* helpers declarable, sorter, lengthIn, aliasOf, genericsOf,              *)
(* filterMissingDataTypes and declarationExists.                           *)
(*                                                                         *)
(* Strings are sequences of UTF-16 code units ('-' = 45, 'A' = 65,         *)
(* 'a' = 97), so that comparison and case conversion are computed.         *)
(* A type entry is a record with a `type` field naming its kind and the    *)
(* fields of that kind (literal, name, generics).                          *)
(***************************************************************************)
EXTENDS Integers, Sequences, FiniteSets, TLC

VARIABLES
    dataTypes,      \* the data-type registry: name -> MixedType[]
    types,          \* the array handed to the helper under test (sorted in place)
    arg,            \* the array as it was when the helper was called
    result,         \* what the helper returned
    op,             \* which helper ran last
    properties,     \* mdn-data properties.json, in key order: name, syntax, isShorthand, compat names
    svgData,        \* ./data/svg, in key order: name, syntax ("" when it has none)
    atRuleDescriptors,  \* ./at-rules, in key order: at-rule name, descriptor, types
    dataTypeKeys,   \* the keys of dataTypes in for-in order
    advancedPseudos, simplePseudos, atRuleList,     \* imported lists of string literals
    globals,
    standardLonghandProperties, standardShorthandProperties,
    vendorPrefixedLonghandProperties, vendorPrefixedShorthandProperties,
    svgProperties,
    declarations,
    definitions,    \* the ten property definition lists, by the name of their constant
    atRuleDefinitions, atRuleHyphenDefinitions,
    interfaces,     \* the exported list of interfaces
    pc,             \* the loop that runs next
    cursor          \* its position

listVars == <<dataTypes, types, arg, result, op>>

inputVars == <<properties, svgData, atRuleDescriptors, dataTypeKeys>>

mapVars ==
    <<standardLonghandProperties, standardShorthandProperties,
      vendorPrefixedLonghandProperties, vendorPrefixedShorthandProperties, svgProperties>>

importVars == <<advancedPseudos, simplePseudos, atRuleList, globals>>

outVars == <<declarations, definitions, atRuleDefinitions, atRuleHyphenDefinitions>>

asmVars == <<inputVars, mapVars, importVars, outVars, interfaces, pc, cursor>>

vars == <<listVars, asmVars>>

\* ------------------------------------------------------------------ bounds
MaxLen == 3
MaxRegLen == 2
MaxProps == 2

\* ------------------------------------------------------------- sequences
Range(s) == {s[i] : i \in 1..Len(s)}

Max(S) == CHOOSE m \in S : \A n \in S : n <= m

\* every sequence over pool of length at most n that has no two equal entries
DedupLists(pool, n) ==
    UNION {{s \in [1..k -> pool] : \A i, j \in 1..k : i # j => s[i] # s[j]} : k \in 0..n}

\* ----------------------------------------------------------------- strings
\* a < b on JavaScript strings: lexicographic on code units
RECURSIVE StrLess(_, _)
StrLess(a, b) ==
    IF b = <<>> THEN FALSE
    ELSE IF a = <<>> THEN TRUE
    ELSE IF Head(a) # Head(b) THEN Head(a) < Head(b)
    ELSE StrLess(Tail(a), Tail(b))

\* names and literals, as code units
s_a == <<97>>    \* "a"
s_b == <<98>>    \* "b"
s_ab == <<97, 98>>    \* "ab"
s_B == <<66>>    \* "B"
s_c == <<99>>    \* "c"
s_all == <<97, 108, 108>>    \* "all"
s_custom == <<45, 45, 42>>    \* "--*"
s_a_b == <<97, 45, 98>>    \* "a-b"
s_x_a == <<45, 120, 45, 97>>    \* "-x-a"
s_x_a_b == <<45, 120, 45, 97, 45, 98>>    \* "-x-a-b"
s_at_a == <<64, 97>>    \* "@a"
s_Property == <<80, 114, 111, 112, 101, 114, 116, 121>>    \* "Property"
s_Globals == <<71, 108, 111, 98, 97, 108, 115>>    \* "Globals"
s_GlobalsString == <<71, 108, 111, 98, 97, 108, 115, 83, 116, 114, 105, 110, 103>>    \* "GlobalsString"
s_GlobalsNumber == <<71, 108, 111, 98, 97, 108, 115, 78, 117, 109, 98, 101, 114>>    \* "GlobalsNumber"
s_AtRules == <<65, 116, 82, 117, 108, 101, 115>>    \* "AtRules"
s_AdvancedPseudos == <<65, 100, 118, 97, 110, 99, 101, 100, 80, 115, 101, 117, 100, 111, 115>>    \* "AdvancedPseudos"
s_SimplePseudos == <<83, 105, 109, 112, 108, 101, 80, 115, 101, 117, 100, 111, 115>>    \* "SimplePseudos"
s_Pseudos == <<80, 115, 101, 117, 100, 111, 115>>    \* "Pseudos"
s_Properties == <<80, 114, 111, 112, 101, 114, 116, 105, 101, 115>>    \* "Properties"
s_Longhand == <<76, 111, 110, 103, 104, 97, 110, 100>>    \* "Longhand"
s_Shorthand == <<83, 104, 111, 114, 116, 104, 97, 110, 100>>    \* "Shorthand"
s_Standard == <<83, 116, 97, 110, 100, 97, 114, 100>>    \* "Standard"
s_Vendor == <<86, 101, 110, 100, 111, 114>>    \* "Vendor"
s_Svg == <<83, 118, 103>>    \* "Svg"
s_Hyphen == <<72, 121, 112, 104, 101, 110>>    \* "Hyphen"
s_Fallback == <<70, 97, 108, 108, 98, 97, 99, 107>>    \* "Fallback"
s_initial == <<105, 110, 105, 116, 105, 97, 108>>    \* "initial"
s_inherit == <<105, 110, 104, 101, 114, 105, 116>>    \* "inherit"
s_hover == <<58, 104, 111, 118, 101, 114>>    \* ":hover"
s_active == <<58, 97, 99, 116, 105, 118, 101>>    \* ":active"
s_not == <<58, 110, 111, 116>>    \* ":not"
s_matches == <<58, 109, 97, 116, 99, 104, 101, 115>>    \* ":matches"
s_at_page == <<64, 112, 97, 103, 101>>    \* "@page"
s_at_media == <<64, 109, 101, 100, 105, 97>>    \* "@media"

\* ------------------------------------------------------------------- types
\* enum Type of the typer, in the order the data model lists the variants
TypeOrdinal(kind) ==
    CASE kind = "StringLiteral" -> 0
      [] kind = "NumericLiteral" -> 1
      [] kind = "String" -> 2
      [] kind = "Number" -> 3
      [] kind = "Length" -> 4
      [] kind = "DataType" -> 5
      [] kind = "Alias" -> 6

lengthGeneric == [name |-> "TLength", defaults |-> "string | 0"]

TLength == <<lengthGeneric>>
TString == [type |-> "String"]
TNumber == [type |-> "Number"]
TLengthType == [type |-> "Length"]
StringLiteral(s) == [type |-> "StringLiteral", literal |-> s]
NumericLiteral(n) == [type |-> "NumericLiteral", literal |-> n]
DataType(n) == [type |-> "DataType", name |-> n]
Alias(n, g) == [type |-> "Alias", name |-> n, generics |-> g]

\* --------------------------------------------------------------- casing
\* toUpperCase on one code unit of a lower-case ASCII letter
UpperUnit(c) == IF c >= 97 /\ c <= 122 THEN c - 32 ELSE c

\* drops every hyphen and upper-cases the unit that follows it
RECURSIVE camelFrom(_, _)
camelFrom(name, afterHyphen) ==
    IF name = <<>> THEN <<>>
    ELSE IF Head(name) = 45 THEN camelFrom(Tail(name), TRUE)
    ELSE <<IF afterHyphen THEN UpperUnit(Head(name)) ELSE Head(name)>>
            \o camelFrom(Tail(name), FALSE)

toCamelCase(name) == camelFrom(name, FALSE)

toPascalCase(name) == camelFrom(name, TRUE)

toVendorPrefixCase(name) == camelFrom(name, TRUE)

\* ---------------------------------------------------------------- sorter
\* sorter without the numeric tie-break
sorterNoNumeric(a, b) ==
    IF a.type = "StringLiteral" /\ b.type = "StringLiteral"
    THEN (IF StrLess(a.literal, b.literal) THEN -1
          ELSE IF StrLess(b.literal, a.literal) THEN 1 ELSE 0)
    ELSE TypeOrdinal(a.type) - TypeOrdinal(b.type)

sorter(a, b) ==
    IF a.type = "StringLiteral" /\ b.type = "StringLiteral"
    THEN (IF StrLess(a.literal, b.literal) THEN -1
          ELSE IF StrLess(b.literal, a.literal) THEN 1 ELSE 0)
    ELSE IF a.type = "NumericLiteral" /\ b.type = "NumericLiteral"
    THEN a.literal - b.literal
    ELSE TypeOrdinal(a.type) - TypeOrdinal(b.type)

\* Array.prototype.sort(sorter): a stable insertion sort driven by the comparator
InsertSorted(s, x) ==
    LET notAfter == {j \in 1..Len(s) : sorter(s[j], x) <= 0}
        p == IF notAfter = {} THEN 0 ELSE Max(notAfter)
    IN  SubSeq(s, 1, p) \o <<x>> \o SubSeq(s, p + 1, Len(s))

RECURSIVE SortFrom(_, _)
SortFrom(done, rest) ==
    IF rest = <<>> THEN done ELSE SortFrom(InsertSorted(done, Head(rest)), Tail(rest))

sort(list) == SortFrom(<<>>, list)

\* --------------------------------------------------------------- lengthIn
\* lengthIn, aliasOf and declarable read the module's dataTypes; they take
\* the registry as reg, so that the data-type loop can apply them to the
\* registry as its in-place sort leaves it.
\*
\* The engine's call stack is finite. A chain of nested lengthIn calls deeper
\* than the number of registry keys plus one visits some key twice, and the
\* call is a pure function of the registry, so it never returns: the engine
\* throws RangeError once the stack is exhausted.
StackLimit(reg) == Cardinality(DOMAIN reg) + 1

isKnownDataType(reg, t) == t.type = "DataType" /\ t.name # <<>> /\ t.name \in DOMAIN reg

\* lengthIn that looks at the list's own entries only
lengthInDirectOnly(reg, list, i, depth) ==
    IF \E k \in i..Len(list) : list[k].type = "Length" THEN "true" ELSE "false"

\* types.every(callback) from index i on, at call depth `depth`:
\* "true" / "false" is lengthIn's return value, "RangeError" a stack overflow
RECURSIVE lengthInRun(_, _, _, _)
lengthInRun(reg, list, i, depth) ==
    IF depth > StackLimit(reg) THEN "RangeError"
    ELSE IF i > Len(list) THEN "false"
    ELSE IF list[i].type = "Length" THEN "true"
    ELSE IF isKnownDataType(reg, list[i])
    THEN LET inner == lengthInRun(reg, reg[list[i].name], 1, depth + 1)
         IN  IF inner = "false" THEN lengthInRun(reg, list, i + 1, depth) ELSE inner
    ELSE lengthInRun(reg, list, i + 1, depth)

lengthIn(reg, list) == lengthInRun(reg, list, 1, 1) = "true"

lengthInThrows(reg, list) == lengthInRun(reg, list, 1, 1) = "RangeError"

\* ----------------------------------------------------------------- aliasOf
aliasOf(reg, declaration) ==
    Alias(declaration.name, IF lengthIn(reg, declaration.types) THEN TLength ELSE <<>>)

\* --------------------------------------------------------------- declarable
\* the rewrite without the length generic
toAliasNoGenerics(reg, t) ==
    IF t.type = "DataType" THEN Alias(toPascalCase(t.name), <<>>) ELSE t

toAlias(reg, t) ==
    IF t.type = "DataType"
    THEN Alias(toPascalCase(t.name),
               IF t.name # <<>> /\ t.name \in DOMAIN reg /\ lengthIn(reg, reg[t.name])
               THEN TLength ELSE <<>>)
    ELSE t

declarable(reg, list) ==
    LET sorted == sort(list) IN [i \in 1..Len(sorted) |-> toAlias(reg, sorted[i])]

\* the map callback calls lengthIn on the registry list of every known DataType
declarableThrows(reg, list) ==
    \E i \in 1..Len(list) : isKnownDataType(reg, list[i]) /\ lengthInThrows(reg, reg[list[i].name])

\* ---------------------------------------------------- filterMissingDataTypes
keepType(t) == t.type # "DataType" \/ (t.name # <<>> /\ t.name \in DOMAIN dataTypes)

\* the filter that adds the fallback whenever an entry was removed
filterAlwaysPush(list) ==
    LET filtered == SelectSeq(list, keepType)
    IN  IF Len(filtered) < Len(list) THEN Append(filtered, TString) ELSE filtered

filterMissingDataTypes(list) ==
    LET filtered == SelectSeq(list, keepType)
    IN  IF Len(filtered) < Len(list) /\ \A i \in 1..Len(filtered) : filtered[i].type # "String"
        THEN Append(filtered, TString)
        ELSE filtered

onlyContainsString(list) == \A i \in 1..Len(list) : list[i].type = "String"

onlyContainsNumber(list) == \A i \in 1..Len(list) : list[i].type = "Number"

\* ------------------------------------------------------- the helpers, called

TypePool ==
    {TLengthType, TString, TNumber,
     StringLiteral(s_a), StringLiteral(s_ab), StringLiteral(s_B),
     NumericLiteral(2), NumericLiteral(10),
     DataType(s_a), DataType(s_b), DataType(<<>>),
     Alias(s_Globals, <<>>)}

\* registries the list helpers are run against: a direct length, a length
\* behind a reference, a registry without key b, and a self-reference
ListRegistries ==
    {(s_a :> <<TLengthType>>) @@ (s_b :> <<StringLiteral(s_a)>>),
     (s_a :> <<DataType(s_b), TString>>) @@ (s_b :> <<TLengthType>>),
     (s_a :> <<TString>>),
     (s_a :> <<DataType(s_a)>>)}

\* the assembly's state while a helper is run on its own
AsmIdle ==
    /\ properties = <<>> /\ svgData = <<>> /\ atRuleDescriptors = <<>> /\ dataTypeKeys = <<>>
    /\ advancedPseudos = <<>> /\ simplePseudos = <<>> /\ atRuleList = <<>> /\ globals = <<>>
    /\ standardLonghandProperties = <<>> /\ standardShorthandProperties = <<>>
    /\ vendorPrefixedLonghandProperties = <<>> /\ vendorPrefixedShorthandProperties = <<>>
    /\ svgProperties = <<>>
    /\ declarations = <<>> /\ definitions = <<>>
    /\ atRuleDefinitions = <<>> /\ atRuleHyphenDefinitions = <<>>
    /\ interfaces = <<>>
    /\ pc = "helper" /\ cursor = 0

ListInit ==
    /\ AsmIdle
    /\ dataTypes \in ListRegistries
    /\ types \in DedupLists(TypePool, MaxLen)
    /\ arg = <<>>
    /\ result = <<>>
    /\ op = "idle"

CallFilterMissingDataTypes ==
    /\ op = "idle"
    /\ arg' = types
    /\ result' = filterMissingDataTypes(types)
    /\ op' = "filterMissingDataTypes"
    /\ UNCHANGED <<dataTypes, types, asmVars>>

\* types.sort(sorter) reorders the argument in place before map runs
CallDeclarable ==
    /\ op = "idle"
    /\ arg' = types
    /\ types' = sort(types)
    /\ IF declarableThrows(dataTypes, types)
       THEN op' = "RangeError" /\ UNCHANGED result
       ELSE op' = "declarable" /\ result' = declarable(dataTypes, types)
    /\ UNCHANGED <<dataTypes, asmVars>>

ListNext == CallFilterMissingDataTypes \/ CallDeclarable

SpecList == ListInit /\ [][ListNext]_vars

\* lengthIn on every small registry, reference cycles included
RegPool == {TLengthType, TString, DataType(s_a), DataType(s_b)}

Registries ==
    UNION {[keys -> DedupLists(RegPool, MaxRegLen)] : keys \in SUBSET {s_a, s_b}}

LengthInit ==
    /\ AsmIdle
    /\ dataTypes \in Registries
    /\ types \in DedupLists(RegPool \cup {DataType(<<>>)}, MaxRegLen)
    /\ arg = <<>>
    /\ result = "none"
    /\ op = "idle"

CallLengthIn ==
    /\ op = "idle"
    /\ arg' = types
    /\ result' = lengthInRun(dataTypes, types, 1, 1)
    /\ op' = "lengthIn"
    /\ UNCHANGED <<dataTypes, types, asmVars>>

LengthNext == CallLengthIn

SpecLengthIn == LengthInit /\ [][LengthNext]_vars


\* ------------------------------------------------------------ the inputs
IGNORES == {s_custom, s_all}

\* REGEX_VENDOR_PROPERTY = /^-/
isVendorProperty(name) == name # <<>> /\ Head(name) = 45

\* typing(parse(syntax)) of the syntaxes the inputs use; <a> and <c> are
\* references to data types, <c> never a registry key
typing(syntax) ==
    CASE syntax = "initial | inherit" -> <<StringLiteral(s_initial), StringLiteral(s_inherit)>>
      [] syntax = "<a> | b" -> <<DataType(s_a), StringLiteral(s_b)>>
      [] syntax = "<c>" -> <<DataType(s_c)>>
      [] syntax = "<c> | <a>" -> <<DataType(s_c), DataType(s_a)>>
      [] syntax = "<c> | <string> | <length>" -> <<DataType(s_c), TString, TLengthType>>
      [] syntax = "<number>" -> <<TNumber>>

\* compatProperties(originalName)
compatProperties(name) ==
    IF name = s_a THEN <<s_x_a>>
    ELSE IF name = s_a_b THEN <<s_x_a_b>>
    ELSE <<>>

\* Array.isArray(properties[originalName].computed)
isShorthandName(name) == name \in {s_a_b, s_all}

PropertyPool ==
    {[name |-> n, syntax |-> sx, isShorthand |-> isShorthandName(n), compat |-> compatProperties(n)] :
        n \in {s_a, s_a_b, s_x_a}, sx \in {"<a> | b", "<c>", "<c> | <string> | <length>"}}

allProperty ==
    [name |-> s_all, syntax |-> "initial | inherit", isShorthand |-> TRUE, compat |-> <<>>]

\* the property tables: the `all` entry and up to MaxProps entries, the keys distinct
PropertyTables ==
    {<<allProperty>> \o t : t \in
        UNION {{u \in [1..k -> PropertyPool] : \A x, y \in 1..k : x # y => u[x].name # u[y].name}
                  : k \in 0..MaxProps}}

\* the svg tables: property a is a standard property's name too, b has no syntax
SvgTables ==
    {<<>>,
     <<[name |-> s_a, syntax |-> "<c> | <a>"]>>,
     <<[name |-> s_b, syntax |-> ""], [name |-> s_a, syntax |-> "<number>"]>>}

AtRuleTables ==
    {<<>>,
     <<[name |-> s_at_a, property |-> s_b, types |-> <<StringLiteral(s_a), DataType(s_a)>>],
       [name |-> s_at_a, property |-> s_a, types |-> <<DataType(s_c)>>]>>}

\* the registries of a run with their key order: a length behind a reference,
\* a list that refers to a name that is no key, a self-reference beside a length
AsmRegistries ==
    {[reg |-> (s_a :> <<TLengthType>>) @@ (s_b :> <<DataType(s_a), StringLiteral(s_b)>>),
      keys |-> <<s_a, s_b>>],
     [reg |-> (s_a :> <<DataType(s_c), TString>>), keys |-> <<s_a>>],
     [reg |-> (s_a :> <<DataType(s_a), TLengthType>>), keys |-> <<s_a>>]}

DefinitionNames ==
    {"standardLonghandPropertiesDefinition", "standardShorthandPropertiesDefinition",
     "standardLonghandPropertiesHyphenDefinition", "standardShorthandPropertiesHyphenDefinition",
     "vendorLonghandPropertiesDefinition", "vendorShorthandPropertiesDefinition",
     "vendorLonghandPropertiesHyphenDefinition", "vendorShorthandPropertiesHyphenDefinition",
     "svgPropertiesDefinition", "svgPropertiesHyphenDefinition"}

AsmInit ==
    /\ \E r \in AsmRegistries : dataTypes = r.reg /\ dataTypeKeys = r.keys
    /\ properties \in PropertyTables
    /\ svgData \in SvgTables
    /\ atRuleDescriptors \in AtRuleTables
    /\ advancedPseudos = <<StringLiteral(s_not), StringLiteral(s_matches)>>
    /\ simplePseudos = <<StringLiteral(s_hover), StringLiteral(s_active)>>
    /\ atRuleList = <<StringLiteral(s_at_page), StringLiteral(s_at_media)>>
    /\ globals = typing(allProperty.syntax)
    /\ standardLonghandProperties = <<>>
    /\ standardShorthandProperties = (s_all :> <<>>)
    /\ vendorPrefixedLonghandProperties = <<>>
    /\ vendorPrefixedShorthandProperties = <<>>
    /\ svgProperties = <<>>
    /\ declarations = <<>>
    /\ definitions = [d \in DefinitionNames |-> <<>>]
    /\ atRuleDefinitions = <<>>
    /\ atRuleHyphenDefinitions = <<>>
    /\ interfaces = <<>>
    /\ pc = "table"
    /\ cursor = 1
    /\ types = <<>> /\ arg = <<>> /\ result = <<>> /\ op = "assembly"

\* ------------------------------------------------------------ loop control
NextLoop(loop) ==
    CASE loop = "table" -> IF svgData # <<>> THEN "svg" ELSE "declarator"
      [] loop = "svg" -> "declarator"
      [] loop = "declarator" -> "properties"
      [] loop = "properties" ->
            IF atRuleDescriptors # <<>> THEN "atRules"
            ELSE IF dataTypeKeys # <<>> THEN "dataTypes" ELSE "interfaces"
      [] loop = "atRules" -> IF dataTypeKeys # <<>> THEN "dataTypes" ELSE "interfaces"
      [] loop = "dataTypes" -> "interfaces"
      [] loop = "interfaces" -> "done"

\* the loop goes on to its next element, or the next loop starts
Advance(count) ==
    IF cursor < count
    THEN pc' = pc /\ cursor' = cursor + 1
    ELSE pc' = NextLoop(pc) /\ cursor' = 1

\* ------------------------------------------------------ the property table
\* map[name] = types for every name of names
AssignAll(map, names, list) == [n \in names |-> list] @@ map

TableStep ==
    /\ pc = "table"
    /\ LET originalName == properties[cursor].name
           propertyNames == Range(<<originalName>> \o properties[cursor].compat)
           list == typing(properties[cursor].syntax)
           isShorthand == properties[cursor].isShorthand
           vendor == {n \in propertyNames : isVendorProperty(n)}
           standard == propertyNames \ vendor
       IN  IF originalName \in IGNORES
           THEN UNCHANGED mapVars
           ELSE /\ vendorPrefixedShorthandProperties' =
                     IF isShorthand THEN AssignAll(vendorPrefixedShorthandProperties, vendor, list)
                     ELSE vendorPrefixedShorthandProperties
                /\ vendorPrefixedLonghandProperties' =
                     IF isShorthand THEN vendorPrefixedLonghandProperties
                     ELSE AssignAll(vendorPrefixedLonghandProperties, vendor, list)
                /\ standardShorthandProperties' =
                     IF isShorthand THEN AssignAll(standardShorthandProperties, standard, list)
                     ELSE standardShorthandProperties
                /\ standardLonghandProperties' =
                     IF isShorthand THEN standardLonghandProperties
                     ELSE AssignAll(standardLonghandProperties, standard, list)
                /\ UNCHANGED svgProperties
    /\ Advance(Len(properties))
    /\ UNCHANGED <<listVars, inputVars, importVars, outVars, interfaces>>

SvgStep ==
    /\ pc = "svg"
    /\ svgProperties' =
         IF svgData[cursor].syntax # ""
         THEN AssignAll(svgProperties, {svgData[cursor].name}, typing(svgData[cursor].syntax))
         ELSE svgProperties
    /\ Advance(Len(svgData))
    /\ UNCHANGED <<listVars, inputVars, importVars, outVars, interfaces, standardLonghandProperties,
                   standardShorthandProperties, vendorPrefixedLonghandProperties,
                   vendorPrefixedShorthandProperties>>

\* ------------------------------------------------------ the declarations
Declaration(name, export, list, generics) ==
    [name |-> name, export |-> export, types |-> list, generics |-> generics]

\* the constants of lines 113-160, and the initial declarations (lines 175-183);
\* declarable sorts the imported lists and globals in place
DeclaratorInit ==
    /\ pc = "declarator"
    /\ globals' = sort(globals)
    /\ advancedPseudos' = sort(advancedPseudos)
    /\ simplePseudos' = sort(simplePseudos)
    /\ atRuleList' = sort(atRuleList)
    /\ LET globalsDecl == Declaration(s_Globals, FALSE, declarable(dataTypes, globals), <<>>)
           globalsAndStringDecl ==
               Declaration(s_GlobalsString, FALSE, declarable(dataTypes, <<aliasOf(dataTypes, globalsDecl), TString>>), <<>>)
           globalsAndNumberDecl ==
               Declaration(s_GlobalsNumber, FALSE, declarable(dataTypes, <<aliasOf(dataTypes, globalsDecl), TNumber>>), <<>>)
           advancedPseudoDeclaration ==
               Declaration(s_AdvancedPseudos, TRUE, declarable(dataTypes, advancedPseudos), <<>>)
           simplePseudoDeclaration ==
               Declaration(s_SimplePseudos, TRUE, declarable(dataTypes, simplePseudos), <<>>)
           pseudoDeclaration ==
               Declaration(s_Pseudos, TRUE,
                           <<aliasOf(dataTypes, advancedPseudoDeclaration), aliasOf(dataTypes, simplePseudoDeclaration)>>, <<>>)
           atRuleDeclaration == Declaration(s_AtRules, TRUE, declarable(dataTypes, atRuleList), <<>>)
       IN  declarations' =
               <<atRuleDeclaration, advancedPseudoDeclaration, simplePseudoDeclaration,
                 pseudoDeclaration, globalsDecl, globalsAndStringDecl, globalsAndNumberDecl>>
    /\ Advance(1)
    /\ UNCHANGED <<listVars, inputVars, mapVars, definitions, atRuleDefinitions,
                   atRuleHyphenDefinitions, interfaces>>

\* the shared declaration objects, as held by `declarations`
globalsDeclaration == declarations[5]

globalsAndStringDeclaration == declarations[6]

globalsAndNumberDeclaration == declarations[7]

\* declarationExists without the search
declarationNeverExists(name) == FALSE

declarationExists(name) == ~(\A k \in 1..Len(declarations) : declarations[k].name # name)

\* Object.keys(map).sort()
RECURSIVE SortedKeys(_)
SortedKeys(keys) ==
    IF keys = {} THEN <<>>
    ELSE LET first == CHOOSE x \in keys : \A y \in keys : ~StrLess(y, x)
         IN  <<first>> \o SortedKeys(keys \ {first})

PropertyMaps ==
    <<"standardLonghandProperties", "standardShorthandProperties",
      "vendorPrefixedLonghandProperties", "vendorPrefixedShorthandProperties", "svgProperties">>

PropertiesOf(map) ==
    CASE map = "standardLonghandProperties" -> standardLonghandProperties
      [] map = "standardShorthandProperties" -> standardShorthandProperties
      [] map = "vendorPrefixedLonghandProperties" -> vendorPrefixedLonghandProperties
      [] map = "vendorPrefixedShorthandProperties" -> vendorPrefixedShorthandProperties
      [] map = "svgProperties" -> svgProperties

\* the switch of lines 196-219
DefinitionsOf(map) ==
    CASE map = "svgProperties" -> "svgPropertiesDefinition"
      [] map = "vendorPrefixedShorthandProperties" -> "vendorShorthandPropertiesDefinition"
      [] map = "vendorPrefixedLonghandProperties" -> "vendorLonghandPropertiesDefinition"
      [] map = "standardShorthandProperties" -> "standardShorthandPropertiesDefinition"
      [] OTHER -> "standardLonghandPropertiesDefinition"

HyphenDefinitionsOf(map) ==
    CASE map = "svgProperties" -> "svgPropertiesHyphenDefinition"
      [] map = "vendorPrefixedShorthandProperties" -> "vendorShorthandPropertiesHyphenDefinition"
      [] map = "vendorPrefixedLonghandProperties" -> "vendorLonghandPropertiesHyphenDefinition"
      [] map = "standardShorthandProperties" -> "standardShorthandPropertiesHyphenDefinition"
      [] OTHER -> "standardLonghandPropertiesHyphenDefinition"

isVendorProperties(map) ==
    map \in {"vendorPrefixedShorthandProperties", "vendorPrefixedLonghandProperties"}

\* the iterations of the nested loops of lines 185-261, in order
RECURSIVE WorkFrom(_)
WorkFrom(m) ==
    IF m > Len(PropertyMaps) THEN <<>>
    ELSE LET keys == SortedKeys(DOMAIN PropertiesOf(PropertyMaps[m]))
         IN  [k \in 1..Len(keys) |-> [map |-> PropertyMaps[m], name |-> keys[k]]] \o WorkFrom(m + 1)

Work == WorkFrom(1)

\* what one iteration of the property loop computes
PropertyTypes(w) == filterMissingDataTypes(PropertiesOf(w.map)[w.name])

PropertyGenerics(w) == IF lengthIn(dataTypes, PropertyTypes(w)) THEN TLength ELSE <<>>

DeclarationName(w) == toPascalCase(w.name) \o s_Property

hasOwnDeclaration(w) ==
    /\ Len(PropertyTypes(w)) # 0
    /\ ~onlyContainsString(PropertyTypes(w))
    /\ ~onlyContainsNumber(PropertyTypes(w))

\* the property's own declaration without the alias of Globals in front
PropertyDeclarationWithoutGlobals(w) ==
    IF Len(PropertyTypes(w)) = 0 THEN globalsDeclaration
    ELSE IF onlyContainsString(PropertyTypes(w)) THEN globalsAndStringDeclaration
    ELSE IF onlyContainsNumber(PropertyTypes(w)) THEN globalsAndNumberDeclaration
    ELSE Declaration(DeclarationName(w), FALSE, declarable(dataTypes, PropertyTypes(w)),
                     PropertyGenerics(w))

PropertyDeclaration(w) ==
    IF Len(PropertyTypes(w)) = 0 THEN globalsDeclaration
    ELSE IF onlyContainsString(PropertyTypes(w)) THEN globalsAndStringDeclaration
    ELSE IF onlyContainsNumber(PropertyTypes(w)) THEN globalsAndNumberDeclaration
    ELSE Declaration(DeclarationName(w), FALSE,
                     <<aliasOf(dataTypes, globalsDeclaration)>> \o declarable(dataTypes, PropertyTypes(w)),
                     PropertyGenerics(w))

PropertyThrows(w) ==
    \/ lengthInThrows(dataTypes, PropertyTypes(w))
    \/ hasOwnDeclaration(w) /\ declarableThrows(dataTypes, PropertyTypes(w))

PropertyAlias(name, generics, alias) == [name |-> name, generics |-> generics, alias |-> alias]

PropertyStep ==
    /\ pc = "properties"
    /\ LET w == Work[cursor]
           generics == PropertyGenerics(w)
           declaration == PropertyDeclaration(w)
           alias == aliasOf(dataTypes, declaration)
       IN  IF PropertyThrows(w)
           THEN pc' = "RangeError" /\ UNCHANGED <<cursor, declarations, definitions>>
           ELSE /\ declarations' =
                     IF hasOwnDeclaration(w) /\ ~declarationExists(DeclarationName(w))
                     THEN Append(declarations, declaration)
                     ELSE declarations
                /\ definitions' =
                     [definitions EXCEPT
                        ![DefinitionsOf(w.map)] =
                            Append(@, PropertyAlias(IF isVendorProperties(w.map)
                                                    THEN toVendorPrefixCase(w.name)
                                                    ELSE toCamelCase(w.name),
                                                    generics, alias)),
                        ![HyphenDefinitionsOf(w.map)] =
                            Append(@, PropertyAlias(w.name, generics, alias))]
                /\ Advance(Len(Work))
    /\ UNCHANGED <<listVars, inputVars, mapVars, importVars, atRuleDefinitions,
                   atRuleHyphenDefinitions, interfaces>>

\* ------------------------------------------------- the at-rule descriptors
PropertyType(name, type) == [name |-> name, type |-> type]

AtRuleStep ==
    /\ pc = "atRules"
    /\ LET name == atRuleDescriptors[cursor].name
           property == atRuleDescriptors[cursor].property
           list == filterMissingDataTypes(atRuleDescriptors[cursor].types)
           generics == IF lengthIn(dataTypes, list) THEN TLength ELSE <<>>
           typed == onlyContainsString(list) \/ onlyContainsNumber(list)
           type == IF onlyContainsString(list) THEN TString ELSE TNumber
           declaration ==
               Declaration(toPascalCase(Tail(name)) \o toPascalCase(property) \o s_Property,
                           FALSE, declarable(dataTypes, list), generics)
           \* atRuleDefinitions[name] = [] when the at-rule's loop starts
           first == \A k \in 1..(cursor - 1) : atRuleDescriptors[k].name # name
           camel == IF first THEN <<>> ELSE atRuleDefinitions[name]
           hyphen == IF first THEN <<>> ELSE atRuleHyphenDefinitions[name]
       IN  IF lengthInThrows(dataTypes, list) \/ (~typed /\ declarableThrows(dataTypes, list))
           THEN pc' = "RangeError" /\ UNCHANGED <<cursor, outVars>>
           ELSE /\ declarations' = IF typed THEN declarations ELSE Append(declarations, declaration)
                /\ atRuleDefinitions' =
                     (name :> Append(camel,
                         IF typed THEN PropertyType(toCamelCase(property), type)
                         ELSE PropertyAlias(toCamelCase(property), generics, aliasOf(dataTypes, declaration))))
                     @@ atRuleDefinitions
                /\ atRuleHyphenDefinitions' =
                     (name :> Append(hyphen,
                         IF typed THEN PropertyType(property, type)
                         ELSE PropertyAlias(property, generics, aliasOf(dataTypes, declaration))))
                     @@ atRuleHyphenDefinitions
                /\ UNCHANGED definitions
                /\ Advance(Len(atRuleDescriptors))
    /\ UNCHANGED <<listVars, inputVars, mapVars, importVars, interfaces>>

\* --------------------------------------------------------- the data types
\* declarable(dataTypes[name]) sorts the registry's list in place; its map
\* callback and the lengthIn call that follows read the registry as sorted
DataTypeStep ==
    /\ pc = "dataTypes"
    /\ LET name == dataTypeKeys[cursor]
           sorted == [dataTypes EXCEPT ![name] = sort(@)]
       IN  /\ dataTypes' = sorted
           /\ IF declarableThrows(sorted, sorted[name]) \/ lengthInThrows(sorted, sorted[name])
              THEN pc' = "RangeError" /\ UNCHANGED <<cursor, declarations>>
              ELSE /\ declarations' =
                        Append(declarations,
                               Declaration(toPascalCase(name), FALSE,
                                           declarable(sorted, sorted[name]),
                                           IF lengthIn(sorted, sorted[name]) THEN TLength ELSE <<>>))
                   /\ Advance(Len(dataTypeKeys))
    /\ UNCHANGED <<types, arg, result, op, inputVars, mapVars, importVars, definitions,
                   atRuleDefinitions, atRuleHyphenDefinitions, interfaces>>

\* ---------------------------------------------------------- the interfaces
\* [].concat(...lists)
RECURSIVE concat(_)
concat(lists) == IF lists = <<>> THEN <<>> ELSE Head(lists) \o concat(Tail(lists))

\* Array.from(new Set(list)): every element once, in order of first occurrence
RECURSIVE FromSet(_)
FromSet(list) ==
    IF list = <<>> THEN <<>>
    ELSE LET front == FromSet(SubSeq(list, 1, Len(list) - 1))
         IN  IF list[Len(list)] \in Range(front) THEN front ELSE Append(front, list[Len(list)])

\* genericsOf without the Set
genericsOfConcat(defs) == concat([i \in 1..Len(defs) |-> defs[i].generics])

genericsOf(defs) == FromSet(concat([i \in 1..Len(defs) |-> defs[i].generics]))

isAliasProperty(value) == "alias" \in DOMAIN value

standardLonghandPropertiesGenerics == genericsOf(definitions.standardLonghandPropertiesDefinition)

standardShorthandPropertiesGenerics == genericsOf(definitions.standardShorthandPropertiesDefinition)

standardPropertiesGenerics ==
    genericsOf(definitions.standardLonghandPropertiesDefinition
               \o definitions.standardShorthandPropertiesDefinition)

vendorLonghandPropertiesGenerics == genericsOf(definitions.vendorLonghandPropertiesDefinition)

vendorShorthandPropertiesGenerics == genericsOf(definitions.vendorShorthandPropertiesDefinition)

vendorPropertiesGenerics ==
    genericsOf(definitions.vendorLonghandPropertiesDefinition
               \o definitions.vendorShorthandPropertiesDefinition)

svgPropertiesGenerics == genericsOf(definitions.svgPropertiesDefinition)

allPropertiesGenerics ==
    genericsOf(definitions.standardLonghandPropertiesDefinition
               \o definitions.standardShorthandPropertiesDefinition
               \o definitions.vendorLonghandPropertiesDefinition
               \o definitions.vendorShorthandPropertiesDefinition
               \o definitions.svgPropertiesDefinition)

Interface(name, generics, extends, fallback, props) ==
    [name |-> name, generics |-> generics, extends |-> extends, fallback |-> fallback,
     properties |-> props]

\* the interface names of lines 318-361, before the Hyphen and Fallback suffixes
INTERFACE_STANDARD_LONGHAND_PROPERTIES == s_Standard \o s_Longhand \o s_Properties

INTERFACE_STANDARD_SHORTHAND_PROPERTIES == s_Standard \o s_Shorthand \o s_Properties

INTERFACE_STANDARD_PROPERTIES == s_Standard \o s_Properties

INTERFACE_VENDOR_LONGHAND_PROPERTIES == s_Vendor \o s_Longhand \o s_Properties

INTERFACE_VENDOR_SHORTHAND_PROPERTIES == s_Vendor \o s_Shorthand \o s_Properties

INTERFACE_VENDOR_PROPERTIES == s_Vendor \o s_Properties

INTERFACE_SVG_PROPERTIES == s_Svg \o s_Properties

INTERFACE_ALL_PROPERTIES == s_Properties

\* the eight interfaces of lines 383-445 (suffix empty, the camel-case
\* definition lists) or of lines 447-509 (suffix Hyphen, the hyphen lists)
PropertyInterfaces(suffix, hyphen) ==
    LET standardLonghand == IF hyphen THEN definitions.standardLonghandPropertiesHyphenDefinition
                            ELSE definitions.standardLonghandPropertiesDefinition
        standardShorthand == IF hyphen THEN definitions.standardShorthandPropertiesHyphenDefinition
                             ELSE definitions.standardShorthandPropertiesDefinition
        vendorLonghand == IF hyphen THEN definitions.vendorLonghandPropertiesHyphenDefinition
                          ELSE definitions.vendorLonghandPropertiesDefinition
        vendorShorthand == IF hyphen THEN definitions.vendorShorthandPropertiesHyphenDefinition
                           ELSE definitions.vendorShorthandPropertiesDefinition
        svg == IF hyphen THEN definitions.svgPropertiesHyphenDefinition
               ELSE definitions.svgPropertiesDefinition
    IN  <<Interface(INTERFACE_STANDARD_LONGHAND_PROPERTIES \o suffix,
                    standardLonghandPropertiesGenerics, <<>>, FALSE, standardLonghand),
          Interface(INTERFACE_STANDARD_SHORTHAND_PROPERTIES \o suffix,
                    standardShorthandPropertiesGenerics, <<>>, FALSE, standardShorthand),
          Interface(INTERFACE_STANDARD_PROPERTIES \o suffix, standardPropertiesGenerics,
                    <<INTERFACE_STANDARD_LONGHAND_PROPERTIES \o suffix,
                      INTERFACE_STANDARD_SHORTHAND_PROPERTIES \o suffix>>, FALSE, <<>>),
          Interface(INTERFACE_VENDOR_LONGHAND_PROPERTIES \o suffix,
                    vendorLonghandPropertiesGenerics, <<>>, FALSE, vendorLonghand),
          Interface(INTERFACE_VENDOR_SHORTHAND_PROPERTIES \o suffix,
                    vendorShorthandPropertiesGenerics, <<>>, FALSE, vendorShorthand),
          Interface(INTERFACE_VENDOR_PROPERTIES \o suffix, vendorPropertiesGenerics,
                    <<INTERFACE_VENDOR_LONGHAND_PROPERTIES \o suffix,
                      INTERFACE_VENDOR_SHORTHAND_PROPERTIES \o suffix>>, FALSE, <<>>),
          Interface(INTERFACE_SVG_PROPERTIES \o suffix, svgPropertiesGenerics, <<>>, FALSE, svg),
          Interface(INTERFACE_ALL_PROPERTIES \o suffix, allPropertiesGenerics,
                    <<INTERFACE_STANDARD_PROPERTIES \o suffix, INTERFACE_VENDOR_PROPERTIES \o suffix,
                      INTERFACE_SVG_PROPERTIES \o suffix>>, FALSE, <<>>)>>

\* { ...interface, name: name + FALLBACK, extends: the fallback interfaces, fallback: true }
FallbackInterface(interface) ==
    [interface EXCEPT !.name = @ \o s_Fallback,
                      !.extends = [k \in 1..Len(@) |-> @[k] \o s_Fallback],
                      !.fallback = TRUE]

\* the four interfaces of one at-rule (lines 619-652)
atRuleInterfacesOf(name) ==
    LET pascalName == toPascalCase(Tail(name))
        generics == genericsOf(SelectSeq(atRuleDefinitions[name], isAliasProperty))
    IN  <<Interface(pascalName, generics, <<>>, FALSE, atRuleDefinitions[name]),
          Interface(pascalName \o s_Hyphen, generics, <<>>, FALSE, atRuleHyphenDefinitions[name]),
          Interface(pascalName \o s_Fallback, generics, <<>>, TRUE, atRuleDefinitions[name]),
          Interface(pascalName \o s_Hyphen \o s_Fallback, generics, <<>>, TRUE,
                    atRuleHyphenDefinitions[name])>>

\* the keys of atRuleDefinitions in insertion order
atRuleNames == FromSet([k \in 1..Len(atRuleDescriptors) |-> atRuleDescriptors[k].name])

atRuleInterfaces == concat([k \in 1..Len(atRuleNames) |-> atRuleInterfacesOf(atRuleNames[k])])

\* the generics, the interfaces and the exported list (lines 362-688)
InterfacesStep ==
    /\ pc = "interfaces"
    /\ LET base == PropertyInterfaces(<<>>, FALSE)
           hyphen == PropertyInterfaces(s_Hyphen, TRUE)
       IN  interfaces' =
               base \o hyphen
               \o [k \in 1..Len(base) |-> FallbackInterface(base[k])]
               \o [k \in 1..Len(hyphen) |-> FallbackInterface(hyphen[k])]
               \o atRuleInterfaces
    /\ Advance(1)
    /\ UNCHANGED <<listVars, inputVars, mapVars, importVars, outVars>>

AsmNext ==
    TableStep \/ SvgStep \/ DeclaratorInit \/ PropertyStep \/ AtRuleStep \/ DataTypeStep
        \/ InterfacesStep

SpecAsm == AsmInit /\ [][AsmNext]_vars

\* ------------------------------------------------------------------ claims
Count(list, x) == Cardinality({i \in 1..Len(list) : list[i] = x})

isMissing(t) == t.type = "DataType" /\ (t.name = <<>> \/ t.name \notin DOMAIN dataTypes)

RetainedIdx(list) == {i \in 1..Len(list) : ~isMissing(list[i])}

\* the position in list of its k-th retained entry
NthRetained(list, k) ==
    CHOOSE i \in RetainedIdx(list) : Cardinality({j \in RetainedIdx(list) : j <= i}) = k

\* C1: filterMissingDataTypes returns the entries that are not DataType, or are
\* DataType with a non-empty registered name, in their original order, followed
\* by exactly one GenericString entry iff an entry was removed and no retained
\* entry is a GenericString; a non-empty input never gives an empty result.
C1_FilterFallbackOnce ==
    op = "filterMissingDataTypes" =>
        LET n == Cardinality(RetainedIdx(arg))
            fallback == n < Len(arg) /\ \A i \in RetainedIdx(arg) : arg[i].type # "String"
        IN  /\ Len(result) = n + (IF fallback THEN 1 ELSE 0)
            /\ \A k \in 1..n : result[k] = arg[NthRetained(arg, k)]
            /\ fallback => result[n + 1] = TString
            /\ arg # <<>> => result # <<>>

\* two unknown references removed from one list, one fallback added
C1_Witness ==
    /\ op = "filterMissingDataTypes"
    /\ Cardinality({i \in 1..Len(arg) : isMissing(arg[i])}) = 2
    /\ Len(result) = 2
    /\ result[1].type = "StringLiteral"
    /\ result[2] = TString

\* the references of a list that name registry keys
Refs(list) == {list[i].name : i \in {j \in 1..Len(list) : isKnownDataType(dataTypes, list[j])}}

RECURSIVE ReachFrom(_, _)
ReachFrom(names, n) ==
    IF n = 0 THEN names
    ELSE ReachFrom(names \cup UNION {Refs(dataTypes[x]) : x \in names}, n - 1)

\* the registry keys a list refers to, through any number of references
Reachable(list) == ReachFrom(Refs(list), Cardinality(DOMAIN dataTypes))

HasLength(list) == \E i \in 1..Len(list) : list[i].type = "Length"

NeedsLength(list) == HasLength(list) \/ \E n \in Reachable(list) : HasLength(dataTypes[n])

Acyclic == \A n \in DOMAIN dataTypes : n \notin Reachable(dataTypes[n])

\* C2: lengthIn terminates and returns a boolean for every registry, reference
\* cycles included.
C2_LengthInReturns == op = "lengthIn" => result \in {"true", "false"}

\* C3: on a registry without reference cycles lengthIn(types) is true iff types
\* holds a Length entry or refers, through any depth of registered references,
\* to a list that holds one; empty and unknown names contribute nothing.
C3_LengthInTransitive ==
    (op = "lengthIn" /\ Acyclic) =>
        /\ result \in {"true", "false"}
        /\ (result = "true") <=> NeedsLength(arg)

\* the length is found two references deep
C3_Witness ==
    /\ op = "lengthIn"
    /\ Acyclic
    /\ result = "true"
    /\ ~HasLength(arg)
    /\ \A n \in Refs(arg) : ~HasLength(dataTypes[n])

\* a does not come after b in canonical order
NotAfter(a, b) ==
    /\ TypeOrdinal(a.type) <= TypeOrdinal(b.type)
    /\ (a.type = "StringLiteral" /\ b.type = "StringLiteral") => ~StrLess(b.literal, a.literal)
    /\ (a.type = "NumericLiteral" /\ b.type = "NumericLiteral") => a.literal <= b.literal

\* C4: every list declarable returns is in canonical order, the kinds taken
\* from the entries before the DataType-to-Alias rewrite (the argument as
\* sorted in place): ascending kind ordinal, string literals ascending
\* lexicographically, numeric literals ascending numerically.
C4_CanonicalOrder ==
    op = "declarable" =>
        /\ Len(result) = Len(types)
        /\ \A i \in 1..Len(types) :
              \/ result[i] = types[i]
              \/ types[i].type = "DataType" /\ result[i].type = "Alias"
        /\ \A i, j \in 1..Len(types) : i < j => NotAfter(types[i], types[j])

\* numeric literals 10 and 2 arrive out of order, after an entry of a later kind
C4_Witness ==
    /\ op = "declarable"
    /\ Len(arg) = 3
    /\ arg[1].type = "String"
    /\ arg[2] = NumericLiteral(10)
    /\ arg[3] = NumericLiteral(2)
    /\ result = <<NumericLiteral(2), NumericLiteral(10), TString>>

\* what declarable makes of one entry
Declared(t) ==
    IF t.type = "DataType"
    THEN Alias(toPascalCase(t.name),
               IF t.name \in DOMAIN dataTypes /\ NeedsLength(dataTypes[t.name])
               THEN TLength ELSE <<>>)
    ELSE t

\* C6: declarable returns a list as long as its input without any DataType
\* entry: each DataType(name) has become the Alias PascalCase(name), with the
\* length generic iff name is a registry key whose list needs a length, and
\* every other entry is carried over unchanged.
C6_DeclarableRewrite ==
    op = "declarable" =>
        /\ Len(result) = Len(arg)
        /\ \A x \in Range(arg) \cup Range(types) : Count(types, x) = Count(arg, x)
        /\ \A i \in 1..Len(result) : result[i].type # "DataType"
        /\ \A i \in 1..Len(result) : result[i] = Declared(types[i])

\* one reference gets the generic, one does not, one entry is carried over
C6_Witness ==
    /\ op = "declarable"
    /\ Len(arg) = 3
    /\ \E i \in 1..3 : arg[i].type = "DataType" /\ Declared(arg[i]).generics = TLength
    /\ \E i \in 1..3 : arg[i].type = "DataType" /\ Declared(arg[i]).generics = <<>>
    /\ \E i \in 1..3 : arg[i].type = "StringLiteral" /\ arg[i] \in Range(result)

\* the type lists of two entries are structurally equal: same kind, and same
\* literal value or alias name
SameEntry(a, b) ==
    /\ a.type = b.type
    /\ a.type \in {"StringLiteral", "NumericLiteral"} => a.literal = b.literal
    /\ a.type \in {"Alias", "DataType"} => a.name = b.name

Deduplicated(list) == \A x, y \in 1..Len(list) : x # y => ~SameEntry(list[x], list[y])

IsPrefix(a, b) == Len(a) <= Len(b) /\ SubSeq(b, 1, Len(a)) = a

\* C7: throughout assembly `declarations` only grows at its end, no entry is
\* removed, replaced or moved, and a property whose declaration name is in the
\* list already keeps the existing entry and appends none.
C7_DeclarationsAppendOnly ==
    [][/\ IsPrefix(declarations, declarations')
       /\ (pc = "properties" /\ \E k \in 1..Len(declarations) :
                                    declarations[k].name = DeclarationName(Work[cursor]))
            => declarations' = declarations]_vars

\* an svg property and a standard property alias one declaration name, the
\* svg one came second, and the list holds that name once
C7_Witness ==
    /\ pc = "done"
    /\ \E x \in 1..Len(definitions.svgPropertiesDefinition) :
       \E y \in 1..Len(definitions.standardLonghandPropertiesDefinition) :
         /\ definitions.svgPropertiesDefinition[x].alias.name
              = definitions.standardLonghandPropertiesDefinition[y].alias.name
         /\ Cardinality({k \in 1..Len(declarations) :
                declarations[k].name = definitions.svgPropertiesDefinition[x].alias.name}) = 1
         /\ definitions.svgPropertiesDefinition[x].alias.name \notin
                {s_Globals, s_GlobalsString, s_GlobalsNumber}

\* the map an alias name of a property is stored in
MapOfName(name, isShorthand) ==
    IF isVendorProperty(name)
    THEN (IF isShorthand THEN vendorPrefixedShorthandProperties ELSE vendorPrefixedLonghandProperties)
    ELSE (IF isShorthand THEN standardShorthandProperties ELSE standardLonghandProperties)

\* C8: after the property table loop, the entry under every non-ignored
\* original property P and under every compat alias of P holds the list
\* resolved from P's own syntax, whatever else the table holds.
C8_AliasesShareOwnList ==
    pc \notin {"table", "helper"} =>
        \A k \in 1..Len(properties) :
            properties[k].name \notin IGNORES =>
                \A n \in Range(<<properties[k].name>> \o properties[k].compat) :
                    /\ n \in DOMAIN MapOfName(n, properties[k].isShorthand)
                    /\ MapOfName(n, properties[k].isShorthand)[n] = typing(properties[k].syntax)

\* C9: after the property, at-rule descriptor and data type loops no two
\* entries of `declarations` have the same name.
C9_DeclarationNamesUnique ==
    pc = "done" =>
        \A x, y \in 1..Len(declarations) : x # y => declarations[x].name # declarations[y].name

AllDefinitions == UNION {Range(definitions[d]) : d \in DOMAIN definitions}

\* C10: every entry of a property definition list has the generics of its
\* alias, and both are the generics of the declaration the alias names.
C10_GenericsConsistent ==
    pc # "helper" =>
        \A e \in AllDefinitions :
            /\ e.alias.generics = e.generics
            /\ \A k \in 1..Len(declarations) :
                   declarations[k].name = e.alias.name => declarations[k].generics = e.generics

\* the entry of `declarations` an alias of this name resolves to
FirstNamed(name) ==
    CHOOSE k \in 1..Len(declarations) :
        /\ declarations[k].name = name
        /\ \A j \in 1..(k - 1) : declarations[j].name # name

\* the first iteration of the property loop `work` that builds a declaration
\* of this name
FirstYielding(work, name) ==
    CHOOSE i \in 1..Len(work) :
        /\ hasOwnDeclaration(work[i]) /\ DeclarationName(work[i]) = name
        /\ \A j \in 1..(i - 1) : ~(hasOwnDeclaration(work[j]) /\ DeclarationName(work[j]) = name)

\* the iterations of the property loop over one map
WorkOf(work, map) == {i \in 1..Len(work) : work[i].map = map}

\* the k-th iteration over map
NthWorkOf(work, map, k) ==
    CHOOSE i \in WorkOf(work, map) : Cardinality({j \in WorkOf(work, map) : j <= i}) = k

\* the definition pushed for the k-th property of map aliases the declaration
\* the claim gives it; the declaration of the property's own name holds the
\* filtered list of the property itself, or of the first property that
\* yielded the name
AliasesKeywords(work, map, k, first) ==
    LET w == work[NthWorkOf(work, map, k)]
        e == definitions[HyphenDefinitionsOf(map)][k]
        f == PropertyTypes(w)
        owner == IF first THEN work[FirstYielding(work, DeclarationName(w))] ELSE w
    IN  /\ e.name = w.name
        /\ definitions[DefinitionsOf(map)][k].alias = e.alias
        /\ IF Len(f) = 0 THEN e.alias.name = s_Globals
           ELSE IF onlyContainsString(f) THEN e.alias.name = s_GlobalsString
           ELSE IF onlyContainsNumber(f) THEN e.alias.name = s_GlobalsNumber
           ELSE /\ e.alias.name = toPascalCase(w.name) \o s_Property
                /\ \E d \in 1..Len(declarations) : declarations[d].name = e.alias.name
                /\ declarations[FirstNamed(e.alias.name)].types =
                       <<Alias(s_Globals, <<>>)>> \o declarable(dataTypes, PropertyTypes(owner))

\* every property has its definition once the property loop is over, and
\* every definition pushed so far aliases as AliasesKeywords says
AllAliasKeywords(first) ==
    pc \in {"properties", "atRules", "dataTypes", "interfaces", "done"} =>
        LET work == Work
        IN  \A m \in Range(PropertyMaps) :
                /\ Len(definitions[HyphenDefinitionsOf(m)]) = Len(definitions[DefinitionsOf(m)])
                /\ Len(definitions[HyphenDefinitionsOf(m)]) <= Cardinality(WorkOf(work, m))
                /\ pc # "properties" =>
                       Len(definitions[HyphenDefinitionsOf(m)]) = Cardinality(WorkOf(work, m))
                /\ \A k \in 1..Len(definitions[HyphenDefinitionsOf(m)]) :
                       AliasesKeywords(work, m, k, first)

\* C11 as stated: every property definition aliases Globals (empty filtered
\* list), GlobalsString (only GenericString), GlobalsNumber (only
\* GenericNumber), or the declaration PascalCase(name)+'Property' whose list is
\* the Globals alias followed by declarable of the property's own filtered list.
C11_AliasesOwnKeywordList == AllAliasKeywords(FALSE)

\* C11, amended: as above, but the declaration PascalCase(name)+'Property'
\* holds the Globals alias followed by declarable of the filtered list of the
\* first property, in processing order, that yielded that declaration name.
C11_AliasesFirstResolvedKeywordList == AllAliasKeywords(TRUE)

\* Globals and GlobalsString were chosen, and an svg property aliases the
\* declaration a standard property of the same name built from another list
C11_Witness ==
    /\ pc = "done"
    /\ \E e \in AllDefinitions : e.alias.name = s_Globals
    /\ \E e \in AllDefinitions : e.alias.name = s_GlobalsString
    /\ LET work == Work
       IN  \E i \in WorkOf(work, "svgProperties") :
             /\ hasOwnDeclaration(work[i])
             /\ FirstYielding(work, DeclarationName(work[i])) # i
             /\ declarable(dataTypes, PropertyTypes(work[i]))
                  # declarable(dataTypes,
                               PropertyTypes(work[FirstYielding(work, DeclarationName(work[i]))]))

\* the position in `interfaces` of the interface of this name
InterfaceNamed(name) == CHOOSE k \in 1..Len(interfaces) : interfaces[k].name = name

\* the definitions that belong to interface k: its own properties and those
\* of the interfaces it extends, to the given depth of extension
RECURSIVE Belonging(_, _)
Belonging(k, depth) ==
    Range(interfaces[k].properties)
        \cup (IF depth = 0 THEN {}
              ELSE UNION {Belonging(InterfaceNamed(interfaces[k].extends[x]), depth - 1) :
                             x \in 1..Len(interfaces[k].extends)})

\* no interface extends deeper than Properties > StandardProperties > StandardLonghandProperties
ExtendsDepth == Len(<<INTERFACE_STANDARD_PROPERTIES, INTERFACE_STANDARD_LONGHAND_PROPERTIES>>)

hasLengthGeneric(e) == "generics" \in DOMAIN e /\ lengthGeneric \in Range(e.generics)

\* C12: the generics of every interface hold the length generic at most once
\* and nothing else, they hold it iff a property definition that belongs to
\* the interface (its own or one of an interface it extends) has it, and the
\* Hyphen and Fallback variants of an interface have the generics of the base.
C12_InterfaceGenerics ==
    \A k \in 1..Len(interfaces) :
        /\ Count(interfaces[k].generics, lengthGeneric) <= 1
        /\ Range(interfaces[k].generics) \subseteq {lengthGeneric}
        /\ lengthGeneric \in Range(interfaces[k].generics)
              <=> \E e \in Belonging(k, ExtendsDepth) : hasLengthGeneric(e)
        /\ \A j \in 1..Len(interfaces) :
              interfaces[j].name \in {interfaces[k].name \o s_Hyphen,
                                      interfaces[k].name \o s_Fallback,
                                      interfaces[k].name \o s_Hyphen \o s_Fallback}
                  => interfaces[j].generics = interfaces[k].generics

\* Properties has the length generic once though two of its properties have
\* it and another has not, and an interface with properties has no generics
C12_Witness ==
    /\ pc = "done"
    /\ LET all == InterfaceNamed(INTERFACE_ALL_PROPERTIES)
       IN  /\ interfaces[all].generics = TLength
           /\ Cardinality({e \in Belonging(all, ExtendsDepth) : hasLengthGeneric(e)}) >= 2
           /\ \E e \in Belonging(all, ExtendsDepth) : ~hasLengthGeneric(e)
    /\ \E k \in 1..Len(interfaces) :
         interfaces[k].properties # <<>> /\ interfaces[k].generics = <<>>

\* a declaration of this name is in `declarations`
isDeclared(name) == \E d \in 1..Len(declarations) : declarations[d].name = name

AllAtRuleDefinitions ==
    UNION {Range(atRuleDefinitions[n]) \cup Range(atRuleHyphenDefinitions[n]) :
              n \in DOMAIN atRuleDefinitions}

\* C13: after assembly every Alias entry in the types list of a declaration
\* and the alias of every property or at-rule descriptor definition names a
\* declaration that is in `declarations`, whatever the registry's lists refer to.
C13_NoDanglingAlias ==
    pc = "done" =>
        /\ \A d \in 1..Len(declarations) :
              \A x \in 1..Len(declarations[d].types) :
                  declarations[d].types[x].type = "Alias"
                      => isDeclared(declarations[d].types[x].name)
        /\ \A e \in AllDefinitions : isDeclared(e.alias.name)
        /\ \A e \in AllAtRuleDefinitions : isAliasProperty(e) => isDeclared(e.alias.name)

\* two lists hold the same entries the same number of times
SameBag(a, b) ==
    /\ Len(a) = Len(b)
    /\ \A x \in Range(a) \cup Range(b) : Count(a, x) = Count(b, x)

\* every list of f is in g under its name, with the same entries
SameLists(f, g) ==
    /\ DOMAIN f \subseteq DOMAIN g
    /\ \A n \in DOMAIN f : SameBag(f[n], g[n])

\* no step changes the entries of globals or of a registry list, nor, once
\* the tables are built, of a property list
MembershipKept ==
    /\ SameBag(globals, globals')
    /\ DOMAIN dataTypes' = DOMAIN dataTypes
    /\ SameLists(dataTypes, dataTypes')
    /\ pc \notin {"table", "svg"} =>
          /\ SameLists(standardLonghandProperties, standardLonghandProperties')
          /\ SameLists(standardShorthandProperties, standardShorthandProperties')
          /\ SameLists(vendorPrefixedLonghandProperties, vendorPrefixedLonghandProperties')
          /\ SameLists(vendorPrefixedShorthandProperties, vendorPrefixedShorthandProperties')
          /\ SameLists(svgProperties, svgProperties')

\* no step changes what lengthIn(dataTypes[name]) gives
LengthInKept ==
    \A n \in DOMAIN dataTypes :
        lengthInRun(dataTypes', dataTypes'[n], 1, 1) = lengthInRun(dataTypes, dataTypes[n], 1, 1)

\* the frame on registries without reference cycles, where lengthIn returns
KeptOnAcyclicRegistries == [][MembershipKept /\ (Acyclic => LengthInKept)]_vars

\* C14: no assembly step changes the membership of a shared list (the only
\* in-place change is declarable's reordering), so globals, every registry
\* list and every property list hold the same entries in every state, and
\* lengthIn(dataTypes[name]) gives the same before and after every step.
C14_ListsAndLengthKept == [][MembershipKept /\ LengthInKept]_vars

====
